---- MODULE Spec2Model ----
(***************************************************************************)
(* A model of src/main.py: the document API of Cola Co with its five       *)
(* selectable authorization methods.  The catalog tables are the module    *)
(* globals of main.py; the evaluators (check_acl, check_rbac and the       *)
(* fetch_document_using_* functions) are operators over them; the four     *)
(* route handlers are operators giving the outcome of one request, and     *)
(* one action per route serves a request.                                  *)
(*                                                                         *)
(* Python values are represented as follows.  A dict is a function, and    *)
(* d.get(k, default) is Get(d, k, default).  A list is a sequence.  A str  *)
(* that the code only compares or returns is a string; the Authorization   *)
(* header, which the code splits and parses, is a sequence of one-         *)
(* character strings.  Optional[str] is a sequence of length at most one   *)
(* (<<>> is None).  The value None returned by a function is PyNone.       *)
(***************************************************************************)
EXTENDS Integers, Sequences, FiniteSets, TLC

VARIABLES USERS, DOCUMENTS, ACLs, ROLES, USER_ROLES, ROLE_PERMISSIONS,
          pc, request, response, calls, first, call, result

tables == <<USERS, DOCUMENTS, ACLs, ROLES, USER_ROLES, ROLE_PERMISSIONS>>
vars == <<USERS, DOCUMENTS, ACLs, ROLES, USER_ROLES, ROLE_PERMISSIONS,
          pc, request, response, calls, first, call, result>>

(***************************************************************************)
(* Bounds of the model.                                                    *)
(***************************************************************************)
\* Document ids of requests, and subject/document ids of evaluator calls,
\* range over 0..MaxId; the fixtures define documents 1..3.
MaxId == 4
\* Subject ids carried by well-formed Authorization headers are 1..MaxUser;
\* the fixtures give ACLs and roles to users 1..3 only.
MaxUser == 4
\* Longest role list given to a subject in the catalogs of SpecEval.
MaxRoles == 2

Range(s) == {s[i] : i \in DOMAIN s}

Get(d, k, default) == IF k \in DOMAIN d THEN d[k] ELSE default

PyNone == [py_none |-> TRUE]

(***************************************************************************)
(* The fixtures.                                                           *)
(***************************************************************************)
AUTHZ_ACL == "acl"
AUTHZ_RBAC == "rbac"
AUTHZ_ABAC == "abac"
AUTHZ_REBAC == "rebac"
AUTHZ_PBAC == "pbac"

AUTHZ_METHODS == <<AUTHZ_ACL, AUTHZ_RBAC, AUTHZ_ABAC, AUTHZ_REBAC, AUTHZ_PBAC>>

USERS_0 ==
  (1 :> [name |-> "Avery Chen", dept |-> "Engineering",
         title |-> "senior engineer", role |-> "admin"]) @@
  (2 :> [name |-> "Jordan Malik", dept |-> "Marketing",
         title |-> "marketing manager", role |-> "editor"]) @@
  (3 :> [name |-> "Riley Nguyen", dept |-> "Sales",
         title |-> "sales associate", role |-> "viewer"]) @@
  (4 :> [name |-> "Morgan Patel", dept |-> "HR",
         title |-> "HR specialist", role |-> "editor"]) @@
  (5 :> [name |-> "Taylor Brooks", dept |-> "engineering",
         title |-> "intern", role |-> "viewer"])

\* The content strings are abbreviated to their first sentence.
DOCUMENTS_0 ==
  (1 :> [title |-> "How to Behave Like an Adult at Work",
         author_id |-> 4, collaborator_ids |-> <<>>,
         content |-> "Be kind to others."]) @@
  (2 :> [title |-> "Top Secret Next Generation AI Application",
         author_id |-> 1, collaborator_ids |-> <<5>>,
         content |-> "This is a super neat idea for an AI application that will change the world."]) @@
  (3 :> [title |-> "What I Did This Summer at Cola Co",
         author_id |-> 5, collaborator_ids |-> <<1, 2, 4>>,
         content |-> "Hi, my name is Taylor."])

ACLs_0 ==
  (1 :> ((1 :> <<"read", "write">>) @@ (2 :> <<"read">>))) @@
  (2 :> ((2 :> <<"read", "write">>) @@ (3 :> <<"read">>))) @@
  (3 :> ((1 :> <<"read">>) @@ (3 :> <<"read", "write">>)))

ROLES_0 == (1 :> "admin") @@ (2 :> "editor") @@ (3 :> "viewer")

USER_ROLES_0 == (1 :> <<1>>) @@ (2 :> <<2>>) @@ (3 :> <<3>>)

ROLE_PERMISSIONS_0 ==
  ("admin" :> ((1 :> <<"read", "write">>) @@ (2 :> <<"read", "write">>) @@
               (3 :> <<"read", "write">>))) @@
  ("editor" :> ((1 :> <<"read", "write">>) @@ (2 :> <<"read", "write">>) @@
                (3 :> <<"read">>))) @@
  ("viewer" :> ((1 :> <<"read">>) @@ (2 :> <<"read">>) @@ (3 :> <<"read">>)))

Fixtures == <<USERS_0, DOCUMENTS_0, ACLs_0, ROLES_0, USER_ROLES_0,
              ROLE_PERMISSIONS_0>>

(***************************************************************************)
(* ACLs (Access Control Lists).                                            *)
(***************************************************************************)
\* A faulty check_acl: falls back to the subject's roles when the ACL has
\* no grant.
check_acl_or_role(user_id, document_id, action) ==
  LET user_acls == Get(ACLs, user_id, <<>>)
      document_permissions == Get(user_acls, document_id, <<>>)
      role_permissions ==
        UNION {Range(Get(Get(ROLE_PERMISSIONS, Get(ROLES, r, ""), <<>>),
                         document_id, <<>>))
               : r \in Range(Get(USER_ROLES, user_id, <<>>))}
  IN  action \in Range(document_permissions) \/ action \in role_permissions

check_acl(user_id, document_id, action) ==
  LET user_acls == Get(ACLs, user_id, <<>>)
      document_permissions == Get(user_acls, document_id, <<>>)
  IN  action \in Range(document_permissions)

(***************************************************************************)
(* RBAC (Role-Based Access Control).                                       *)
(***************************************************************************)
\* ROLES.get(role_id) is None for an unknown role id; None and "" are the
\* falsy values "if role_name:" rejects.
Truthy(role_name) == role_name # ""

\* A faulty loop: only the first role of the list is consulted.
RECURSIVE rbac_first_role_only(_, _, _, _)
rbac_first_role_only(roles, i, document_id, action) ==
  IF i > Len(roles) THEN FALSE
  ELSE LET role_name == Get(ROLES, roles[i], "")
           permissions == Get(ROLE_PERMISSIONS, role_name, <<>>)
           document_permissions == Get(permissions, document_id, <<>>)
       IN  Truthy(role_name) /\ action \in Range(document_permissions)

\* A faulty loop: any permission of the role on the document grants every
\* action.
RECURSIVE rbac_any_action(_, _, _, _)
rbac_any_action(roles, i, document_id, action) ==
  IF i > Len(roles) THEN FALSE
  ELSE LET role_name == Get(ROLES, roles[i], "")
           permissions == Get(ROLE_PERMISSIONS, role_name, <<>>)
           document_permissions == Get(permissions, document_id, <<>>)
       IN  IF Truthy(role_name) /\ document_permissions # <<>>
           THEN TRUE
           ELSE rbac_any_action(roles, i + 1, document_id, action)

\* The for loop of check_rbac from position i of the role list on.
RECURSIVE rbac_loop(_, _, _, _)
rbac_loop(roles, i, document_id, action) ==
  IF i > Len(roles) THEN FALSE
  ELSE LET role_name == Get(ROLES, roles[i], "")
           permissions == Get(ROLE_PERMISSIONS, role_name, <<>>)
           document_permissions == Get(permissions, document_id, <<>>)
       IN  IF Truthy(role_name) /\ action \in Range(document_permissions)
           THEN TRUE
           ELSE rbac_loop(roles, i + 1, document_id, action)

check_rbac(user_id, document_id, action) ==
  LET roles == Get(USER_ROLES, user_id, <<>>)
  IN  rbac_loop(roles, 1, document_id, action)

(***************************************************************************)
(* Strings the handlers build and parse.                                   *)
(***************************************************************************)
\* sep.join(items) for a non-empty list of strings.
RECURSIVE Join(_, _)
Join(sep, items) ==
  IF Len(items) = 1 THEN items[1]
  ELSE items[1] \o sep \o Join(sep, Tail(items))

\* s.split(" ") on a sequence of characters: one token per separator plus
\* one, empty tokens kept; cur is the token being read, acc those finished.
RECURSIVE split_from(_, _, _, _)
split_from(s, i, cur, acc) ==
  IF i > Len(s) THEN Append(acc, cur)
  ELSE IF s[i] = " " THEN split_from(s, i + 1, <<>>, Append(acc, cur))
       ELSE split_from(s, i + 1, Append(cur, s[i]), acc)

split(s) == split_from(s, 1, <<>>, <<>>)

DigitChars == <<"0", "1", "2", "3", "4", "5", "6", "7", "8", "9">>

DigitValue(c) == (CHOOSE k \in DOMAIN DigitChars : DigitChars[k] = c) - 1

RECURSIVE DecValue(_)
DecValue(digits) ==
  IF digits = <<>> THEN 0
  ELSE 10 * DecValue(SubSeq(digits, 1, Len(digits) - 1))
       + DigitValue(digits[Len(digits)])

\* int(token) for a token of the characters of HeaderValues: an optional
\* sign followed by one or more decimal digits, ValueError otherwise.
int(token) ==
  LET signed == token # <<>> /\ token[1] \in {"+", "-"}
      digits == IF signed THEN Tail(token) ELSE token
  IN  IF digits = <<>> \/ \E i \in DOMAIN digits : digits[i] \notin Range(DigitChars)
      THEN [raised |-> "ValueError", value |-> 0]
      ELSE [raised |-> "",
            value |-> IF signed /\ token[1] = "-" THEN 0 - DecValue(digits)
                      ELSE DecValue(digits)]

\* user_id = int(authorization.split(" ")[1])
parse_user_id(authorization) ==
  LET tokens == split(authorization)
  IN  IF Len(tokens) < 2 THEN [raised |-> "IndexError", value |-> 0]
      ELSE int(tokens[2])

(***************************************************************************)
(* Outcomes of a handler: the value it returns or the exception it lets    *)
(* escape, with the evaluator functions it called, in call order.          *)
(***************************************************************************)
Returned(body, called) == [raised |-> "", body |-> body, calls |-> called]

Raised(exception) == [raised |-> exception, body |-> PyNone, calls |-> <<>>]

InvalidMethod ==
  [error |-> "Invalid authorization method",
   suggestion |-> "Choose from: " \o Join(", ", AUTHZ_METHODS)]

HeaderMissing ==
  [error |-> "Authorization header missing",
   suggestion |-> "Provide a valid authorization token"]

AccessDenied == [error |-> "Access denied"]

DocumentNotFound == [error |-> "Document not found"]

(***************************************************************************)
(* The fetch functions behind GET /documents/{id}.                         *)
(***************************************************************************)
fetch_document_using_acls(user_id, document_id) ==
  IF check_acl(user_id, document_id, "read")
  THEN Returned(Get(DOCUMENTS, document_id, DocumentNotFound),
                <<"fetch_document_using_acls", "check_acl">>)
  ELSE Returned(AccessDenied, <<"fetch_document_using_acls", "check_acl">>)

fetch_document_using_rbac(user_id, document_id) ==
  IF check_rbac(user_id, document_id, "read")
  THEN Returned(Get(DOCUMENTS, document_id, DocumentNotFound),
                <<"fetch_document_using_rbac", "check_rbac">>)
  ELSE Returned(AccessDenied, <<"fetch_document_using_rbac", "check_rbac">>)

fetch_document_using_abac(user_id, document_id) ==
  Returned(PyNone, <<"fetch_document_using_abac">>)

fetch_document_using_rebac(user_id, document_id) ==
  Returned(PyNone, <<"fetch_document_using_rebac">>)

fetch_document_using_pbac(user_id, document_id) ==
  Returned(PyNone, <<"fetch_document_using_pbac">>)

(***************************************************************************)
(* The route handlers.  authorization is <<>> (no header) or <<value>>.    *)
(***************************************************************************)
create_document(id, authz_method, authorization) ==
  IF authz_method \notin Range(AUTHZ_METHODS) THEN Returned(InvalidMethod, <<>>)
  ELSE IF authorization = <<>> THEN Returned(HeaderMissing, <<>>)
  ELSE LET user_id == parse_user_id(authorization[1])
       IN  IF user_id.raised # "" THEN Raised(user_id.raised)
           ELSE CASE authz_method = "acl" ->
                       Returned([message |-> "Document created using ACLs"], <<>>)
                  [] authz_method = "rbac" ->
                       Returned([message |-> "Document created using RBAC"], <<>>)
                  [] authz_method = "abac" ->
                       Returned([message |-> "Document created using ABAC"], <<>>)
                  [] authz_method = "rebac" ->
                       Returned([message |-> "Document created using ReBAC"], <<>>)
                  [] authz_method = "pbac" ->
                       Returned([message |-> "Document created using PBAC"], <<>>)
                  [] OTHER -> Returned(InvalidMethod, <<>>)

\* A faulty read_document: the header is looked at before the method.
read_document_header_first(id, authz_method, authorization) ==
  IF authorization = <<>> THEN Returned(HeaderMissing, <<>>)
  ELSE IF authz_method \notin Range(AUTHZ_METHODS) THEN Returned(InvalidMethod, <<>>)
  ELSE LET user_id == parse_user_id(authorization[1])
       IN  IF user_id.raised # "" THEN Raised(user_id.raised)
           ELSE CASE authz_method = "acl" ->
                       fetch_document_using_acls(user_id.value, id)
                  [] authz_method = "rbac" ->
                       fetch_document_using_rbac(user_id.value, id)
                  [] authz_method = "abac" ->
                       fetch_document_using_abac(user_id.value, id)
                  [] authz_method = "rebac" ->
                       fetch_document_using_rebac(user_id.value, id)
                  [] authz_method = "pbac" ->
                       fetch_document_using_pbac(user_id.value, id)
                  [] OTHER -> Returned(InvalidMethod, <<>>)

read_document(id, authz_method, authorization) ==
  IF authz_method \notin Range(AUTHZ_METHODS) THEN Returned(InvalidMethod, <<>>)
  ELSE IF authorization = <<>> THEN Returned(HeaderMissing, <<>>)
  ELSE LET user_id == parse_user_id(authorization[1])
       IN  IF user_id.raised # "" THEN Raised(user_id.raised)
           ELSE CASE authz_method = "acl" ->
                       fetch_document_using_acls(user_id.value, id)
                  [] authz_method = "rbac" ->
                       fetch_document_using_rbac(user_id.value, id)
                  [] authz_method = "abac" ->
                       fetch_document_using_abac(user_id.value, id)
                  [] authz_method = "rebac" ->
                       fetch_document_using_rebac(user_id.value, id)
                  [] authz_method = "pbac" ->
                       fetch_document_using_pbac(user_id.value, id)
                  [] OTHER -> Returned(InvalidMethod, <<>>)

\* A faulty update_document: a request without the header is served as an
\* anonymous one instead of being rejected.
update_document_anonymous(id, authz_method, authorization) ==
  IF authz_method \notin Range(AUTHZ_METHODS) THEN Returned(InvalidMethod, <<>>)
  ELSE LET user_id == IF authorization = <<>> THEN [raised |-> "", value |-> 0]
                      ELSE parse_user_id(authorization[1])
       IN  IF user_id.raised # "" THEN Raised(user_id.raised)
           ELSE CASE authz_method = "acl" ->
                       Returned([message |-> "Document updated using ACLs"], <<>>)
                  [] authz_method = "rbac" ->
                       Returned([message |-> "Document updated using RBAC"], <<>>)
                  [] authz_method = "abac" ->
                       Returned([message |-> "Document updated using ABAC"], <<>>)
                  [] authz_method = "rebac" ->
                       Returned([message |-> "Document updated using ReBAC"], <<>>)
                  [] authz_method = "pbac" ->
                       Returned([message |-> "Document updated using PBAC"], <<>>)
                  [] OTHER -> Returned(InvalidMethod, <<>>)

update_document(id, authz_method, authorization) ==
  IF authz_method \notin Range(AUTHZ_METHODS) THEN Returned(InvalidMethod, <<>>)
  ELSE IF authorization = <<>> THEN Returned(HeaderMissing, <<>>)
  ELSE LET user_id == parse_user_id(authorization[1])
       IN  IF user_id.raised # "" THEN Raised(user_id.raised)
           ELSE CASE authz_method = "acl" ->
                       Returned([message |-> "Document updated using ACLs"], <<>>)
                  [] authz_method = "rbac" ->
                       Returned([message |-> "Document updated using RBAC"], <<>>)
                  [] authz_method = "abac" ->
                       Returned([message |-> "Document updated using ABAC"], <<>>)
                  [] authz_method = "rebac" ->
                       Returned([message |-> "Document updated using ReBAC"], <<>>)
                  [] authz_method = "pbac" ->
                       Returned([message |-> "Document updated using PBAC"], <<>>)
                  [] OTHER -> Returned(InvalidMethod, <<>>)

delete_document(id, authz_method, authorization) ==
  IF authz_method \notin Range(AUTHZ_METHODS) THEN Returned(InvalidMethod, <<>>)
  ELSE IF authorization = <<>> THEN Returned(HeaderMissing, <<>>)
  ELSE LET user_id == parse_user_id(authorization[1])
       IN  IF user_id.raised # "" THEN Raised(user_id.raised)
           ELSE CASE authz_method = "acl" ->
                       Returned([message |-> "Document deleted using ACLs"], <<>>)
                  [] authz_method = "rbac" ->
                       Returned([message |-> "Document deleted using RBAC"], <<>>)
                  [] authz_method = "abac" ->
                       Returned([message |-> "Document deleted using ABAC"], <<>>)
                  [] authz_method = "rebac" ->
                       Returned([message |-> "Document deleted using ReBAC"], <<>>)
                  [] authz_method = "pbac" ->
                       Returned([message |-> "Document deleted using PBAC"], <<>>)
                  [] OTHER -> Returned(InvalidMethod, <<>>)

(***************************************************************************)
(* Requests.                                                               *)
(***************************************************************************)
\* str(n) for n >= 0, as a sequence of characters.
RECURSIVE DecString(_)
DecString(n) ==
  IF n < 10 THEN <<DigitChars[n + 1]>>
  ELSE Append(DecString(n \div 10), DigitChars[(n % 10) + 1])

Ids == 0..MaxId

\* The authz_method values of requests: the five recognized ones, one that
\* differs from a recognized one by case only, and an unknown one.
Methods == Range(AUTHZ_METHODS) \cup {"ACL", "xyzzy"}

\* Values of the Authorization header: "<scheme> <id>" for the subjects
\* 1..MaxUser, and values the parse of the handlers tells apart: the empty
\* string, no space, nothing after the space, a second token that is not a
\* number, two spaces, an empty scheme, several digits, a sign, three tokens.
HeaderValues ==
  {<<"B", " ">> \o DecString(n) : n \in 1..MaxUser} \cup
  { <<>>,
    <<"B">>,
    <<"B", " ">>,
    <<"B", " ", "x">>,
    <<"B", " ", " ", "1">>,
    <<" ", "2">>,
    <<"B", " ", "1", "2">>,
    <<"B", " ", "-", "1">>,
    <<"B", " ", "3", " ", "x">> }

Headers == {<<>>} \cup {<<h>> : h \in HeaderValues}

\* The requests whose first response is remembered: those of subjects 1
\* and 3 on documents 1 and 2 under acl, rbac and abac, on every route.
Probes ==
  [endpoint : {"POST", "GET", "PATCH", "DELETE"}, id : {1, 2},
   authz_method : {"acl", "rbac", "abac"},
   authorization : {<<(<<"B", " ">> \o DecString(n))>> : n \in {1, 3}}]

NoRequest == [endpoint |-> "", id |-> 0, authz_method |-> "", authorization |-> <<>>]

NoResponse == [raised |-> "", body |-> PyNone]

NoMemo == [request |-> NoRequest, response |-> NoResponse]

NoCall == [fn |-> "", user_id |-> 0, document_id |-> 0, action |-> ""]

(***************************************************************************)
(* The resource server: one request at a time is served by its handler     *)
(* (pc = "done": the outcome is in response and calls), then answered.     *)
(* first remembers the first request of Probes served and its response.    *)
(***************************************************************************)
Init ==
  /\ USERS = USERS_0
  /\ DOCUMENTS = DOCUMENTS_0
  /\ ACLs = ACLs_0
  /\ ROLES = ROLES_0
  /\ USER_ROLES = USER_ROLES_0
  /\ ROLE_PERMISSIONS = ROLE_PERMISSIONS_0
  /\ pc = "idle"
  /\ request = NoRequest
  /\ response = NoResponse
  /\ calls = <<>>
  /\ first = NoMemo
  /\ call = NoCall
  /\ result = FALSE

Serve(endpoint, id, authz_method, authorization, outcome) ==
  /\ pc' = "done"
  /\ request' = [endpoint |-> endpoint, id |-> id, authz_method |-> authz_method,
                 authorization |-> authorization]
  /\ response' = [raised |-> outcome.raised, body |-> outcome.body]
  /\ calls' = outcome.calls
  /\ UNCHANGED <<first, call, result>>

CreateDocument ==
  /\ pc = "idle"
  /\ \E id \in Ids, authz_method \in Methods, authorization \in Headers :
       Serve("POST", id, authz_method, authorization,
             create_document(id, authz_method, authorization))
  /\ UNCHANGED tables

ReadDocument ==
  /\ pc = "idle"
  /\ \E id \in Ids, authz_method \in Methods, authorization \in Headers :
       Serve("GET", id, authz_method, authorization,
             read_document(id, authz_method, authorization))
  /\ UNCHANGED tables

UpdateDocument ==
  /\ pc = "idle"
  /\ \E id \in Ids, authz_method \in Methods, authorization \in Headers :
       Serve("PATCH", id, authz_method, authorization,
             update_document(id, authz_method, authorization))
  /\ UNCHANGED tables

\* A faulty DELETE: a request answered with the "Document deleted" message
\* removes the document from DOCUMENTS.
DeleteDocument_removing ==
  /\ pc = "idle"
  /\ \E id \in Ids, authz_method \in Methods, authorization \in Headers :
       LET outcome == delete_document(id, authz_method, authorization)
       IN  /\ Serve("DELETE", id, authz_method, authorization, outcome)
           /\ DOCUMENTS' =
                IF outcome.raised = "" /\ "message" \in DOMAIN outcome.body
                THEN [d \in DOMAIN DOCUMENTS \ {id} |-> DOCUMENTS[d]]
                ELSE DOCUMENTS
  /\ UNCHANGED <<USERS, ACLs, ROLES, USER_ROLES, ROLE_PERMISSIONS>>

DeleteDocument ==
  /\ pc = "idle"
  /\ \E id \in Ids, authz_method \in Methods, authorization \in Headers :
       Serve("DELETE", id, authz_method, authorization,
             delete_document(id, authz_method, authorization))
  /\ UNCHANGED tables

\* The response is sent and the server awaits the next request.
Respond ==
  /\ pc = "done"
  /\ pc' = "idle"
  /\ first' = IF first = NoMemo /\ request \in Probes
              THEN [request |-> request, response |-> response]
              ELSE first
  /\ request' = NoRequest
  /\ response' = NoResponse
  /\ calls' = <<>>
  /\ UNCHANGED <<tables, call, result>>

Next ==
  \/ CreateDocument
  \/ ReadDocument
  \/ UpdateDocument
  \/ DeleteDocument
  \/ Respond

Spec == Init /\ [][Next]_vars

(***************************************************************************)
(* The evaluators as functions of the catalog and their arguments: the     *)
(* catalog is the fixtures with at most one ACL grant and at most one      *)
(* subject's role list replaced, the arguments are drawn with it, and one  *)
(* action per evaluator applies it.                                        *)
(***************************************************************************)
Actions == {"read", "write", "delete"}

ActionLists == {<<>>, <<"read">>, <<"write">>, <<"write", "read">>}

RECURSIVE SeqsUpTo(_, _)
SeqsUpTo(S, n) ==
  IF n = 0 THEN {<<>>}
  ELSE LET shorter == SeqsUpTo(S, n - 1)
       IN  shorter \cup {Append(q, x) : q \in shorter, x \in S}

\* Role ids 1..3 are those of ROLES; 0 and MaxId are not roles.
RoleLists == SeqsUpTo({0, 1, 2, 3, MaxId}, MaxRoles)

AclCatalogs ==
  {ACLs_0} \cup
  {[ACLs_0 EXCEPT ![u] = (o :> l) @@ ACLs_0[u]] :
     u \in DOMAIN ACLs_0, o \in 1..MaxId, l \in ActionLists}

UserRoleCatalogs ==
  {USER_ROLES_0} \cup
  {(u :> l) @@ USER_ROLES_0 : u \in 1..MaxId, l \in RoleLists}

InitEval ==
  /\ USERS = USERS_0
  /\ DOCUMENTS = DOCUMENTS_0
  /\ ROLES = ROLES_0
  /\ ROLE_PERMISSIONS = ROLE_PERMISSIONS_0
  /\ \/ ACLs \in AclCatalogs /\ USER_ROLES = USER_ROLES_0
     \/ ACLs = ACLs_0 /\ USER_ROLES \in UserRoleCatalogs
  /\ pc = "call"
  /\ call \in [fn : {""}, user_id : Ids, document_id : Ids, action : Actions]
  /\ result = FALSE
  /\ request = NoRequest
  /\ response = NoResponse
  /\ calls = <<>>
  /\ first = NoMemo

CheckAcl ==
  /\ pc = "call"
  /\ pc' = "returned"
  /\ call' = [call EXCEPT !.fn = "check_acl"]
  /\ result' = check_acl(call.user_id, call.document_id, call.action)
  /\ UNCHANGED <<tables, request, response, calls, first>>

CheckRbac ==
  /\ pc = "call"
  /\ pc' = "returned"
  /\ call' = [call EXCEPT !.fn = "check_rbac"]
  /\ result' = check_rbac(call.user_id, call.document_id, call.action)
  /\ UNCHANGED <<tables, request, response, calls, first>>

NextEval ==
  \/ CheckAcl
  \/ CheckRbac

SpecEval == InitEval /\ [][NextEval]_vars

(***************************************************************************)
(* Properties.                                                             *)
(***************************************************************************)
Recognized == {"acl", "rbac", "abac", "rebac", "pbac"}

UnsupportedModel ==
  [error |-> "Invalid authorization method",
   suggestion |-> "Choose from: acl, rbac, abac, rebac, pbac"]

MissingCredential ==
  [error |-> "Authorization header missing",
   suggestion |-> "Provide a valid authorization token"]

\* The request served has a recognized method and a header from which the
\* handler obtained a subject id.
Identified ==
  /\ pc = "done"
  /\ request.authz_method \in Recognized
  /\ request.authorization # <<>>
  /\ parse_user_id(request.authorization[1]).raised = ""

Subject == parse_user_id(request.authorization[1]).value

\* The action list the ACL table stores for exactly the pair (S, O).
AclGrant(S, O) ==
  IF S \in DOMAIN ACLs /\ O \in DOMAIN ACLs[S] THEN ACLs[S][O] ELSE <<>>

\* Role id r names a role whose permissions list action a on document O.
RoleGrants(r, O, a) ==
  /\ r \in DOMAIN ROLES
  /\ ROLES[r] \in DOMAIN ROLE_PERMISSIONS
  /\ O \in DOMAIN ROLE_PERMISSIONS[ROLES[r]]
  /\ \E i \in DOMAIN ROLE_PERMISSIONS[ROLES[r]][O] :
       ROLE_PERMISSIONS[ROLES[r]][O][i] = a

RolesOf(S) == IF S \in DOMAIN USER_ROLES THEN USER_ROLES[S] ELSE <<>>

\* C1: check_acl(S, O, a) is true exactly when a is in the action list the
\* ACL table stores for the pair (S, O), for known and unknown ids alike and
\* whatever role list the catalog gives the subject.
C1_AclIffGrant ==
  pc = "returned" /\ call.fn = "check_acl" =>
    (result <=> \E i \in DOMAIN AclGrant(call.user_id, call.document_id) :
                  AclGrant(call.user_id, call.document_id)[i] = call.action)

\* check_acl denied an action that a role of the subject grants.
C1_Witness ==
  /\ pc = "returned"
  /\ call.fn = "check_acl"
  /\ ~result
  /\ \E i \in DOMAIN RolesOf(call.user_id) :
       RoleGrants(RolesOf(call.user_id)[i], call.document_id, call.action)

\* C2: check_rbac(S, O, a) is true exactly when at least one role of S's role
\* list grants a on O; a subject with no roles is denied; and an allowed
\* decision stays allowed when any role id is added at either end of the
\* role list.
C2_RbacIffSomeRole ==
  pc = "returned" /\ call.fn = "check_rbac" =>
    LET roles == RolesOf(call.user_id)
    IN  /\ result <=> \E i \in DOMAIN roles :
                        RoleGrants(roles[i], call.document_id, call.action)
        /\ roles = <<>> => ~result
        /\ result =>
             \A r \in 0..MaxId :
               /\ rbac_loop(Append(roles, r), 1, call.document_id, call.action)
               /\ rbac_loop(<<r>> \o roles, 1, call.document_id, call.action)

\* check_rbac allowed an action that only a later role of a list of several
\* roles grants.
C2_Witness ==
  /\ pc = "returned"
  /\ call.fn = "check_rbac"
  /\ result
  /\ Len(RolesOf(call.user_id)) > 1
  /\ ~RoleGrants(RolesOf(call.user_id)[1], call.document_id, call.action)

\* C3: a GET for a subject and document with no ACL grant, no granting role
\* and no author or collaborator relationship is answered "Access denied"
\* under every recognized method.
NoGrantAtAll(S, O) ==
  /\ AclGrant(S, O) = <<>>
  /\ \A i \in DOMAIN RolesOf(S), a \in Actions : ~RoleGrants(RolesOf(S)[i], O, a)
  /\ O \in DOMAIN DOCUMENTS =>
       /\ DOCUMENTS[O].author_id # S
       /\ S \notin Range(DOCUMENTS[O].collaborator_ids)

C3_FailClosed ==
  Identified /\ request.endpoint = "GET" /\ NoGrantAtAll(Subject, request.id) =>
    response = [raised |-> "", body |-> AccessDenied]

\* C4: on every route a request whose method is not recognized is answered
\* with the invalid-method error listing the five methods, whatever its
\* header, and no evaluator was called for it.
C4_UnsupportedModel ==
  pc = "done" /\ request.authz_method \notin Recognized =>
    /\ response = [raised |-> "", body |-> UnsupportedModel]
    /\ calls = <<>>

\* An unknown method arrived on GET with a header that has no space.
C4_Witness ==
  /\ pc = "done"
  /\ request.authz_method = "xyzzy"
  /\ request.endpoint = "GET"
  /\ request.authorization = << <<"B">> >>
  /\ response.body = UnsupportedModel

\* C5: on every route a request with a recognized method and no header is
\* answered with the missing-header error, and no evaluator was called for
\* it (so no document is returned).
C5_MissingCredential ==
  pc = "done" /\ request.authz_method \in Recognized /\ request.authorization = <<>> =>
    /\ response = [raised |-> "", body |-> MissingCredential]
    /\ calls = <<>>

C5_Witness ==
  /\ pc = "done"
  /\ request.endpoint = "PATCH"
  /\ request.authz_method = "rbac"
  /\ request.authorization = <<>>
  /\ response.body = MissingCredential

\* C6: no request ends in an exception escaping its handler.
C6_NoUncaughtException ==
  pc = "done" => response.raised = ""

\* C7: a GET naming a subject that is not in USERS or a document that is not
\* in DOCUMENTS is answered "Access denied" under every recognized method,
\* and no request is ever answered "Document not found".
C7_UnknownEntityDenied ==
  /\ Identified /\ request.endpoint = "GET"
       /\ (Subject \notin DOMAIN USERS \/ request.id \notin DOMAIN DOCUMENTS) =>
         response = [raised |-> "", body |-> AccessDenied]
  /\ pc = "done" => response.body # DocumentNotFound

\* C8: on the fixtures check_acl(1, 2, "write") is denied and
\* check_rbac(1, 2, "write") allowed; subject 1, the admin, is allowed read
\* and write on documents 1..3; subject 3, the viewer, is denied write on
\* document 1 and on every other document.
C8_FixtureScenarios ==
  tables = Fixtures /\ pc = "returned" =>
    /\ call = [fn |-> "check_acl", user_id |-> 1, document_id |-> 2,
               action |-> "write"] => ~result
    /\ call.fn = "check_rbac" /\ call.user_id = 1 /\ call.document_id \in 1..3
         /\ call.action \in {"read", "write"} => result
    /\ call.fn = "check_rbac" /\ call.user_id = 3 /\ call.action = "write"
         => ~result
    /\ call.fn = "check_rbac" /\ call.user_id = 3 /\ call.document_id \in 1..3
         /\ call.action = "read" => result

C8_Witness ==
  /\ tables = Fixtures
  /\ pc = "returned"
  /\ call = [fn |-> "check_rbac", user_id |-> 3, document_id |-> 1,
             action |-> "write"]
  /\ ~result

EvaluatorAllows(authz_method, S, O, a) ==
  CASE authz_method = "acl" -> check_acl(S, O, a)
    [] authz_method = "rbac" -> check_rbac(S, O, a)
    [] OTHER -> FALSE

C10_SuccessBackedByAllow ==
  Identified /\ response.raised = ""
    /\ ("message" \in DOMAIN response.body \/ response.body \in Range(DOCUMENTS)) =>
      EvaluatorAllows(request.authz_method, Subject, request.id,
                      IF request.endpoint = "GET" THEN "read" ELSE "write")

====
